---- MODULE Spec2Model ----
(***************************************************************************)
(* Model of pkg/configurator/client.go: the ConfigMap watch client.        *)
(*                                                                         *)
(*   NewConfigurator  builds the Client around a shared informer's store,  *)
(*                    two unbuffered channels (cacheSynced, announcements) *)
(*                    and starts run in a goroutine.                       *)
(*   run              starts the informer, waits for the initial cache     *)
(*                    sync and closes cacheSynced.                         *)
(*   getConfigMap     reads the watched ConfigMap from the store and       *)
(*                    decodes one of its Data entries as YAML.             *)
(*   shouldObserve    the namespace filter given to the event handlers.    *)
(***************************************************************************)
EXTENDS Integers, Sequences, FiniteSets, TLC

(***************************************************************************)
(* Bounds of the model.                                                    *)
(***************************************************************************)
\* changes (initial list items and watch events) the informer observes
MaxEvents == 2
\* objects returned by the initial listing
MaxList == 2
\* lines of a payload text
MaxLines == 2
\* largest config_version written in a payload
MaxVersion == 2
\* goroutines that wait on the readiness signal
MaxWaiters == 2

(***************************************************************************)
(* The arguments NewConfigurator is called with, and the objects of the    *)
(* cluster.                                                                *)
(***************************************************************************)
osmNamespace == "osm-system"

osmConfigMapName == "osm-config"

Namespaces == {osmNamespace, "default"}

Names == {osmConfigMapName, "other-config"}

\* the keys of ConfigMap.Data
EntryNames == {"osm.yaml", "extra.yaml"}

(***************************************************************************)
(* Payload texts.  A text is a sequence of lines; a line "key: val" is the *)
(* record [key, val]; a line without a "key: " prefix has key = "".  The   *)
(* value "[" opens a flow sequence that is never closed.                   *)
(***************************************************************************)
Digits == <<"0", "1", "2", "3", "4", "5", "6", "7", "8", "9">>

ConfigVersionTag == "config_version"

PermissiveTrafficPolicyModeTag == "permissive_traffic_policy_mode"

LineKeys == {ConfigVersionTag, PermissiveTrafficPolicyModeTag, "log_level", ""}

IntTokens == {Digits[n + 1] : n \in 0..MaxVersion}

BoolTokens == {"true", "false"}

LineVals == IntTokens \cup BoolTokens \cup {"abc", "["}

Lines == [key : LineKeys, val : LineVals]

Texts == UNION {[1..n -> Lines] : n \in 0..MaxLines}

(***************************************************************************)
(* type osmConfig and its zero value.                                      *)
(***************************************************************************)
osmConfig == [ConfigVersion : Int, PermissiveTrafficPolicyMode : BOOLEAN]

ZeroConfig == [ConfigVersion |-> 0, PermissiveTrafficPolicyMode |-> FALSE]

(***************************************************************************)
(* yaml.Unmarshal(config, &conf) into an osmConfig.                        *)
(***************************************************************************)
\* the scalar a value token resolves to
resolve(tok) ==
    IF tok \in BoolTokens
    THEN [tag |-> "bool", int |-> 0, bool |-> (tok = "true")]
    ELSE IF \E n \in 0..9 : Digits[n + 1] = tok
    THEN [tag |-> "int", int |-> CHOOSE n \in 0..9 : Digits[n + 1] = tok, bool |-> FALSE]
    ELSE [tag |-> "str", int |-> 0, bool |-> FALSE]

\* the parser rejects the whole document
IsSyntaxError(text) ==
    \/ \E i \in 1..Len(text) : text[i].val = "["
    \/ /\ \E i \in 1..Len(text) : text[i].key = ""
       /\ \E j \in 1..Len(text) : text[j].key # ""

\* the document is one plain scalar, not a mapping
IsScalarDocument(text) ==
    /\ Len(text) > 0
    /\ \A i \in 1..Len(text) : text[i].key = ""

\* variant: the PermissiveTrafficPolicyMode field carries no yaml tag, so the
\* decoder looks for the lower-cased field name
unmarshalFieldUntagged(line, acc) ==
    LET r == resolve(line.val) IN
    IF line.key = ConfigVersionTag
    THEN IF r.tag = "int"
         THEN [acc EXCEPT !.conf.ConfigVersion = r.int]
         ELSE [acc EXCEPT !.err = TRUE]
    ELSE IF line.key = "permissivetrafficpolicymode"
    THEN IF r.tag = "bool"
         THEN [acc EXCEPT !.conf.PermissiveTrafficPolicyMode = r.bool]
         ELSE [acc EXCEPT !.err = TRUE]
    ELSE acc

\* one "key: val" pair decoded into the struct field whose tag is key;
\* a value of the wrong type is recorded as a type error and skipped
unmarshalField(line, acc) ==
    LET r == resolve(line.val) IN
    IF line.key = ConfigVersionTag
    THEN IF r.tag = "int"
         THEN [acc EXCEPT !.conf.ConfigVersion = r.int]
         ELSE [acc EXCEPT !.err = TRUE]
    ELSE IF line.key = PermissiveTrafficPolicyModeTag
    THEN IF r.tag = "bool"
         THEN [acc EXCEPT !.conf.PermissiveTrafficPolicyMode = r.bool]
         ELSE [acc EXCEPT !.err = TRUE]
    ELSE acc

RECURSIVE mappingStruct(_, _)
mappingStruct(lines, acc) ==
    IF lines = <<>>
    THEN acc
    ELSE mappingStruct(Tail(lines), unmarshalField(Head(lines), acc))

Unmarshal(text, conf) ==
    IF IsSyntaxError(text) THEN [conf |-> conf, err |-> TRUE]
    ELSE IF IsScalarDocument(text) THEN [conf |-> conf, err |-> TRUE]
    ELSE mappingStruct(text, [conf |-> conf, err |-> FALSE])

\* the valid encoding of a record
Marshal(c) ==
    << [key |-> ConfigVersionTag, val |-> Digits[c.ConfigVersion + 1]],
       [key |-> PermissiveTrafficPolicyModeTag,
        val |-> IF c.PermissiveTrafficPolicyMode THEN "true" ELSE "false"] >>

(***************************************************************************)
(* ConfigMap objects and the store.                                        *)
(***************************************************************************)
EmptyData == [n \in {} |-> <<>>]

ConfigMap(ns, name, data) ==
    [type |-> "*v1.ConfigMap", Namespace |-> ns, Name |-> name, Data |-> data]

NilItem == [type |-> "nil", Namespace |-> "", Name |-> "", Data |-> EmptyData]

\* cache.MetaNamespaceKeyFunc: "<namespace>/<name>"
MetaNamespaceKeyFunc(obj) == <<obj.Namespace, obj.Name>>

\* the payloads the cluster writes in the system specification
ValidText == Marshal([ConfigVersion |-> 2, PermissiveTrafficPolicyMode |-> TRUE])

PartialErrorText ==
    << [key |-> ConfigVersionTag, val |-> "abc"],
       [key |-> PermissiveTrafficPolicyModeTag, val |-> "true"] >>

OtherValidText == Marshal([ConfigVersion |-> 1, PermissiveTrafficPolicyMode |-> FALSE])

SampleData ==
    { EmptyData,
      [n \in {"osm.yaml"} |-> ValidText],
      [n \in EntryNames |-> IF n = "osm.yaml" THEN ValidText ELSE OtherValidText] }

\* every Data map with at most one entry
SingleEntryData == {EmptyData} \cup {[n \in {"osm.yaml"} |-> t] : t \in Texts}

VARIABLES
    cache,          \* informer.GetStore(): key -> object
    populated,      \* the informer's queue has received the initial listing
    listRemaining,  \* items of the initial listing not yet applied to the store
    informerPc,     \* "created", "running", "stopped"
    observed,       \* the changes handed to the event handlers, in order
    pending,        \* notifications queued for the event handler
    sending,        \* the announcement the handler is sending (at most one)
    delivered,      \* announcements received from client.announcements
    hasConsumer,    \* some goroutine receives from client.announcements
    stop,           \* the stop channel: "open" or "closed"
    runPc,          \* position of the run goroutine
    cacheSynced,    \* client.cacheSynced: "open" or "closed"
    closeCount,     \* close(c.cacheSynced) executions
    result,         \* the last getConfigMap call and what it returned
    ctorPc,         \* position of the goroutine that called NewConfigurator
    waiters,        \* the goroutines that receive from client.cacheSynced
    stopFiredUnsynced, \* stop was closed while the store had not synced
    filterResult    \* an object handed to shouldObserve and the outcome

vars == <<cache, populated, listRemaining, informerPc, observed, pending, sending,
          delivered, hasConsumer, stop, runPc, cacheSynced, closeCount, result,
          ctorPc, waiters, stopFiredUnsynced, filterResult>>

Keys == Namespaces \X Names

Kinds == {"add", "update", "delete"}

\* result before any call; held is the number of Data entries of the object
\* the store held at the watched key when the call was made (-1: no object)
NoCall ==
    [called |-> FALSE, panicked |-> FALSE, isNil |-> TRUE, conf |-> ZeroConfig,
     lookupErr |-> FALSE, decodeErr |-> FALSE, held |-> -1, beforeSync |-> FALSE,
     expect |-> {ZeroConfig}]

(***************************************************************************)
(* The objects an informer can hand to the filter: the handlers take       *)
(* interface{} values.  A type is described by what reflection finds.      *)
(***************************************************************************)
ObjectTypes ==
    {"*v1.ConfigMap", "*v1.Secret", "*struct{Name}", "*struct{ObjectMeta{Name}}",
     "cache.DeletedFinalStateUnknown", "nil"}

\* is the value a non-nil pointer; does the struct it points to have an
\* ObjectMeta field; does that ObjectMeta have a Namespace field
Shape(type) ==
    [pointer |-> type \in {"*v1.ConfigMap", "*v1.Secret", "*struct{Name}",
                           "*struct{ObjectMeta{Name}}"},
     hasObjectMeta |-> type \in {"*v1.ConfigMap", "*v1.Secret",
                                 "*struct{ObjectMeta{Name}}"},
     hasNamespace |-> type \in {"*v1.ConfigMap", "*v1.Secret"}]

FilterObjects ==
    [type : ObjectTypes,
     Namespace : Namespaces \cup {"", "kube-system", "osm"},
     Name : Names]

NoFilterCall(obj) == [called |-> FALSE, obj |-> obj, panicked |-> FALSE, value |-> FALSE]

IdleWaiters == [i \in 1..MaxWaiters |-> "idle"]

(***************************************************************************)
(* NewConfigurator: the state when it returns.                             *)
(***************************************************************************)
NewConfigurator ==
    /\ cache = [k \in {} |-> NilItem]
    /\ populated = FALSE
    /\ listRemaining = 0
    /\ informerPc = "created"
    /\ observed = <<>>
    /\ pending = <<>>
    /\ sending = <<>>
    /\ delivered = <<>>
    /\ hasConsumer \in BOOLEAN
    /\ stop = "open"
    /\ runPc = "start"
    /\ cacheSynced = "open"
    /\ closeCount = 0
    /\ result = NoCall
    /\ ctorPc = "returned"
    /\ waiters = IdleWaiters
    /\ stopFiredUnsynced = FALSE
    /\ filterResult = NoFilterCall(ConfigMap(osmNamespace, osmConfigMapName, EmptyData))

Init == NewConfigurator

(***************************************************************************)
(* The shared informer (c.informer.Run, informer.HasSynced).               *)
(***************************************************************************)
HasSynced == populated /\ listRemaining = 0

\* a notification: the kind of change and a reference to the object
Event(kind, obj) == [kind |-> kind, Namespace |-> obj.Namespace, Name |-> obj.Name]

\* the initial listing arrives: n objects are queued
InformerList ==
    /\ informerPc = "running"
    /\ ~populated
    /\ \E n \in 0..MaxList :
         /\ n <= MaxEvents
         /\ populated' = TRUE
         /\ listRemaining' = n
    /\ UNCHANGED <<cache, informerPc, observed, pending, sending, delivered,
                   hasConsumer, stop, runPc, cacheSynced, closeCount, result,
                   ctorPc, waiters, stopFiredUnsynced, filterResult>>

\* one item of the initial listing, with data out of samples, is applied to
\* the store and announced
InformerApplyListedOf(samples) ==
    /\ informerPc = "running"
    /\ populated
    /\ listRemaining > 0
    /\ \E k \in Keys \ DOMAIN cache, d \in samples :
         LET obj == ConfigMap(k[1], k[2], d) IN
         /\ cache' = [x \in DOMAIN cache \cup {k} |-> IF x = k THEN obj ELSE cache[x]]
         /\ observed' = Append(observed, Event("add", obj))
         /\ pending' = Append(pending, Event("add", obj))
    /\ listRemaining' = listRemaining - 1
    /\ UNCHANGED <<populated, informerPc, sending, delivered, hasConsumer, stop,
                   runPc, cacheSynced, closeCount, result,
                   ctorPc, waiters, stopFiredUnsynced, filterResult>>

InformerApplyListed == InformerApplyListedOf(SampleData)

\* the watch reports a new object
InformerAdd ==
    /\ informerPc = "running"
    /\ HasSynced
    /\ Len(observed) < MaxEvents
    /\ \E k \in Keys \ DOMAIN cache, d \in SampleData :
         LET obj == ConfigMap(k[1], k[2], d) IN
         /\ cache' = [x \in DOMAIN cache \cup {k} |-> IF x = k THEN obj ELSE cache[x]]
         /\ observed' = Append(observed, Event("add", obj))
         /\ pending' = Append(pending, Event("add", obj))
    /\ UNCHANGED <<populated, listRemaining, informerPc, sending, delivered,
                   hasConsumer, stop, runPc, cacheSynced, closeCount, result,
                   ctorPc, waiters, stopFiredUnsynced, filterResult>>

\* the watch reports a new version of an object (or the resync repeats it)
InformerUpdate ==
    /\ informerPc = "running"
    /\ HasSynced
    /\ Len(observed) < MaxEvents
    /\ \E k \in DOMAIN cache, d \in SampleData :
         LET obj == ConfigMap(k[1], k[2], d) IN
         /\ cache' = [cache EXCEPT ![k] = obj]
         /\ observed' = Append(observed, Event("update", obj))
         /\ pending' = Append(pending, Event("update", obj))
    /\ UNCHANGED <<populated, listRemaining, informerPc, sending, delivered,
                   hasConsumer, stop, runPc, cacheSynced, closeCount, result,
                   ctorPc, waiters, stopFiredUnsynced, filterResult>>

\* the watch reports that an object is gone
InformerDelete ==
    /\ informerPc = "running"
    /\ HasSynced
    /\ Len(observed) < MaxEvents
    /\ \E k \in DOMAIN cache :
         /\ cache' = [x \in DOMAIN cache \ {k} |-> cache[x]]
         /\ observed' = Append(observed, Event("delete", cache[k]))
         /\ pending' = Append(pending, Event("delete", cache[k]))
    /\ UNCHANGED <<populated, listRemaining, informerPc, sending, delivered,
                   hasConsumer, stop, runPc, cacheSynced, closeCount, result,
                   ctorPc, waiters, stopFiredUnsynced, filterResult>>

\* informer.Run returns once stop is closed
InformerStop ==
    /\ informerPc = "running"
    /\ stop = "closed"
    /\ informerPc' = "stopped"
    /\ UNCHANGED <<cache, populated, listRemaining, observed, pending, sending,
                   delivered, hasConsumer, stop, runPc, cacheSynced, closeCount,
                   result,
                   ctorPc, waiters, stopFiredUnsynced, filterResult>>

\* the owner of the stop channel closes it
CloseStop ==
    /\ stop = "open"
    /\ stop' = "closed"
    /\ stopFiredUnsynced' = ~HasSynced
    /\ UNCHANGED <<cache, populated, listRemaining, informerPc, observed, pending,
                   sending, delivered, hasConsumer, runPc, cacheSynced, closeCount,
                   result,
                   ctorPc, waiters, filterResult>>

(***************************************************************************)
(* The event handlers registered by NewConfigurator.                       *)
(***************************************************************************)
\* variant: no filter, every object is observed
shouldObserveAlways(obj) == TRUE

\* variant: the filter compares the object's name, not its namespace
shouldObserveByName(obj) == obj.Name = osmConfigMapName

\* reflect.ValueOf(obj).Elem().FieldByName("ObjectMeta").FieldByName("Namespace")
shouldObserve(obj) == obj.Namespace = osmNamespace

\* the string reflection returns for a field that does not exist
InvalidValueString == "<invalid Value>"

\* shouldObserve applied to an interface{} value of any type: Elem panics on
\* a value that is no pointer, FieldByName panics on the zero Value left by a
\* missing ObjectMeta, String of a missing Namespace is "<invalid Value>"
shouldObserveCall(obj) ==
    LET sh == Shape(obj.type) IN
    IF ~sh.pointer THEN [panicked |-> TRUE, value |-> FALSE]
    ELSE IF ~sh.hasObjectMeta THEN [panicked |-> TRUE, value |-> FALSE]
    ELSE IF ~sh.hasNamespace
    THEN [panicked |-> FALSE, value |-> (InvalidValueString = osmNamespace)]
    ELSE [panicked |-> FALSE, value |-> shouldObserve(obj)]

\* one queued notification is handed to the handler: filtered out, or the
\* handler starts the send on the unbuffered announcements channel
HandleEvent ==
    /\ pending # <<>>
    /\ sending = <<>>
    /\ pending' = Tail(pending)
    /\ sending' = IF shouldObserve(Head(pending)) THEN <<Head(pending)>> ELSE <<>>
    /\ UNCHANGED <<cache, populated, listRemaining, informerPc, observed, delivered,
                   hasConsumer, stop, runPc, cacheSynced, closeCount, result,
                   ctorPc, waiters, stopFiredUnsynced, filterResult>>

\* a consumer receives: the blocked send completes
Receive ==
    /\ hasConsumer
    /\ sending # <<>>
    /\ delivered' = Append(delivered, Head(sending))
    /\ sending' = <<>>
    /\ UNCHANGED <<cache, populated, listRemaining, informerPc, observed, pending,
                   hasConsumer, stop, runPc, cacheSynced, closeCount, result,
                   ctorPc, waiters, stopFiredUnsynced, filterResult>>

(***************************************************************************)
(* func (c *Client) run(stop)                                              *)
(***************************************************************************)
\* go c.informer.Run(stop); then enter cache.WaitForCacheSync
RunStart ==
    /\ runPc = "start"
    /\ runPc' = "wait"
    /\ informerPc' = "running"
    /\ UNCHANGED <<cache, populated, listRemaining, observed, pending, sending,
                   delivered, hasConsumer, stop, cacheSynced, closeCount, result,
                   ctorPc, waiters, stopFiredUnsynced, filterResult>>

\* WaitForCacheSync returns true
RunWaitSynced ==
    /\ runPc = "wait"
    /\ HasSynced
    /\ runPc' = "close"
    /\ UNCHANGED <<cache, populated, listRemaining, informerPc, observed, pending,
                   sending, delivered, hasConsumer, stop, cacheSynced, closeCount,
                   result,
                   ctorPc, waiters, stopFiredUnsynced, filterResult>>

\* variant: the return after the failed wait is missing, run goes on to close
RunWaitStoppedFallsThrough ==
    /\ runPc = "wait"
    /\ stop = "closed"
    /\ runPc' = "close"
    /\ UNCHANGED <<cache, populated, listRemaining, informerPc, observed, pending,
                   sending, delivered, hasConsumer, stop, cacheSynced, closeCount,
                   result, ctorPc, waiters, stopFiredUnsynced, filterResult>>

\* variant: the failure branch closes cacheSynced before it returns
RunWaitStoppedCloses ==
    /\ runPc = "wait"
    /\ stop = "closed"
    /\ cacheSynced' = "closed"
    /\ closeCount' = closeCount + 1
    /\ runPc' = "failed"
    /\ UNCHANGED <<cache, populated, listRemaining, informerPc, observed, pending,
                   sending, delivered, hasConsumer, stop, result, ctorPc, waiters,
                   stopFiredUnsynced, filterResult>>

\* variant: the wait is given a channel that is never closed instead of stop
RunWaitStoppedNever ==
    /\ runPc = "wait"
    /\ FALSE
    /\ UNCHANGED vars

\* WaitForCacheSync returns false: log and return
RunWaitStopped ==
    /\ runPc = "wait"
    /\ stop = "closed"
    /\ runPc' = "failed"
    /\ UNCHANGED <<cache, populated, listRemaining, informerPc, observed, pending,
                   sending, delivered, hasConsumer, stop, cacheSynced, closeCount,
                   result,
                   ctorPc, waiters, stopFiredUnsynced, filterResult>>

\* variant: cacheSynced is closed by a deferred close as well
RunCloseDeferredToo ==
    /\ runPc = "close"
    /\ cacheSynced' = "closed"
    /\ closeCount' = closeCount + 2
    /\ runPc' = "done"
    /\ UNCHANGED <<cache, populated, listRemaining, informerPc, observed, pending,
                   sending, delivered, hasConsumer, stop, result,
                   ctorPc, waiters, stopFiredUnsynced, filterResult>>

\* variant: run returns after the wait without closing cacheSynced
RunCloseSkipped ==
    /\ runPc = "close"
    /\ runPc' = "done"
    /\ UNCHANGED <<cache, populated, listRemaining, informerPc, observed, pending,
                   sending, delivered, hasConsumer, stop, cacheSynced, closeCount,
                   result, ctorPc, waiters, stopFiredUnsynced, filterResult>>

\* close(c.cacheSynced)
RunClose ==
    /\ runPc = "close"
    /\ cacheSynced' = "closed"
    /\ closeCount' = closeCount + 1
    /\ runPc' = "done"
    /\ UNCHANGED <<cache, populated, listRemaining, informerPc, observed, pending,
                   sending, delivered, hasConsumer, stop, result,
                   ctorPc, waiters, stopFiredUnsynced, filterResult>>

(***************************************************************************)
(* func (c *Client) getConfigMap() *osmConfig                              *)
(***************************************************************************)
\* variant: the key is built with a fixed namespace
getConfigMapCacheKeyDefaultNs == <<"default", osmConfigMapName>>

\* fmt.Sprintf("%s/%s", c.osmNamespace, c.osmConfigMapName)
getConfigMapCacheKey == <<osmNamespace, osmConfigMapName>>

\* c.cache.GetByKey(key); fails is the store reporting an error
GetByKey(store, key, fails) ==
    IF fails THEN [item |-> NilItem, exists |-> FALSE, err |-> TRUE]
    ELSE IF key \in DOMAIN store
    THEN [item |-> store[key], exists |-> TRUE, err |-> FALSE]
    ELSE [item |-> NilItem, exists |-> FALSE, err |-> FALSE]

Returned(conf, got, decodeErr) ==
    [called |-> TRUE, panicked |-> FALSE, isNil |-> FALSE, conf |-> conf,
     lookupErr |-> got.err, decodeErr |-> decodeErr]

Panicked(got) ==
    [called |-> TRUE, panicked |-> TRUE, isNil |-> TRUE, conf |-> ZeroConfig,
     lookupErr |-> got.err, decodeErr |-> FALSE]

\* variant: the "if !exists" return is missing
getConfigMapNoExistsCheck(store, fails, last) ==
    LET got == GetByKey(store, getConfigMapCacheKey, fails) IN
    IF got.item.type # "*v1.ConfigMap" THEN Panicked(got)
    ELSE IF Cardinality(DOMAIN got.item.Data) = 0 THEN Returned(ZeroConfig, got, FALSE)
    ELSE LET dec == Unmarshal(got.item.Data[last], ZeroConfig) IN
         Returned(dec.conf, got, dec.err)

\* last is the Data entry the range loop visits last
getConfigMap(store, fails, last) ==
    LET got == GetByKey(store, getConfigMapCacheKey, fails) IN
    IF ~got.exists THEN Returned(ZeroConfig, got, FALSE)
    ELSE IF got.item.type # "*v1.ConfigMap" THEN Panicked(got)
    ELSE IF Cardinality(DOMAIN got.item.Data) = 0 THEN Returned(ZeroConfig, got, FALSE)
    ELSE LET dec == Unmarshal(got.item.Data[last], ZeroConfig) IN
         Returned(dec.conf, got, dec.err)

\* the entries the range loop over configMap.Data can end on
LastVisited(store) ==
    IF getConfigMapCacheKey \in DOMAIN store /\ DOMAIN store[getConfigMapCacheKey].Data # {}
    THEN DOMAIN store[getConfigMapCacheKey].Data
    ELSE {"osm.yaml"}

WatchedKey == <<osmNamespace, osmConfigMapName>>

\* what the store holds for the watched object: its number of Data entries
Held(store) ==
    IF WatchedKey \in DOMAIN store
    THEN Cardinality(DOMAIN store[WatchedKey].Data)
    ELSE -1

\* the decodings of the Data entries the store holds for the watched object
\* (the zero record when it holds no object or no entry)
DecodedEntries(store) ==
    IF Held(store) <= 0 THEN {ZeroConfig}
    ELSE {Unmarshal(store[WatchedKey].Data[n], ZeroConfig).conf :
            n \in DOMAIN store[WatchedKey].Data}

\* variant: a payload that fails to decode is evicted from the store
GetConfigEvicting(outcomes) ==
    /\ \E fails \in outcomes, last \in LastVisited(cache) :
         LET r == getConfigMap(cache, fails, last) IN
         /\ result' = r @@ [held |-> Held(cache),
                            expect |-> DecodedEntries(cache),
                            beforeSync |-> (~HasSynced /\ cacheSynced = "open")]
         /\ cache' = IF r.decodeErr
                     THEN [x \in DOMAIN cache \ {WatchedKey} |-> cache[x]]
                     ELSE cache
    /\ UNCHANGED <<populated, listRemaining, informerPc, observed, pending,
                   sending, delivered, hasConsumer, stop, runPc, cacheSynced,
                   closeCount, ctorPc, waiters, stopFiredUnsynced, filterResult>>

\* variant: the record decoded by the first call is kept and returned again
GetConfigMemoized(outcomes) ==
    /\ \E fails \in outcomes, last \in LastVisited(cache) :
         LET r == getConfigMap(cache, fails, last) IN
         result' = [r EXCEPT !.conf = IF result.called THEN result.conf ELSE r.conf] @@
                   [held |-> Held(cache),
                    expect |-> DecodedEntries(cache),
                    beforeSync |-> (~HasSynced /\ cacheSynced = "open")]
    /\ UNCHANGED <<cache, populated, listRemaining, informerPc, observed, pending,
                   sending, delivered, hasConsumer, stop, runPc, cacheSynced,
                   closeCount, ctorPc, waiters, stopFiredUnsynced, filterResult>>

\* some goroutine calls getConfigMap; outcomes are the ways the store's
\* GetByKey can answer (TRUE: it reports an error)
GetConfig(outcomes) ==
    /\ \E fails \in outcomes, last \in LastVisited(cache) :
         result' = getConfigMap(cache, fails, last) @@
                   [held |-> Held(cache),
                    expect |-> DecodedEntries(cache),
                    beforeSync |-> (~HasSynced /\ cacheSynced = "open")]
    /\ UNCHANGED <<cache, populated, listRemaining, informerPc, observed, pending,
                   sending, delivered, hasConsumer, stop, runPc, cacheSynced,
                   closeCount,
                   ctorPc, waiters, stopFiredUnsynced, filterResult>>

\* the informer's thread-safe store never reports an error
GetConfigFromInformerStore == GetConfig({FALSE})

Next ==
    \/ InformerList
    \/ InformerApplyListed
    \/ InformerAdd
    \/ InformerUpdate
    \/ InformerDelete
    \/ InformerStop
    \/ CloseStop
    \/ HandleEvent
    \/ Receive
    \/ RunStart
    \/ RunWaitSynced
    \/ RunWaitStopped
    \/ RunClose
    \/ GetConfigFromInformerStore

Spec == Init /\ [][Next]_vars


(***************************************************************************)
(* getConfigMap as a function of the store: every payload of the watched   *)
(* object and every answer the Store interface allows.  The initial states *)
(* are states after a listing of at most one object has been applied and   *)
(* run has closed cacheSynced.                                             *)
(***************************************************************************)
\* two entries, each of at most one line
TwoEntryData ==
    LET short == {t \in Texts : Len(t) <= 1} IN
    {[n \in EntryNames |-> IF n = "osm.yaml" THEN p[1] ELSE p[2]] : p \in short \X short}

DecodeData == SingleEntryData \cup TwoEntryData

DecodeInit ==
    /\ \/ cache = [k \in {} |-> NilItem] /\ observed = <<>>
       \/ \E d \in DecodeData :
            LET obj == ConfigMap(osmNamespace, osmConfigMapName, d) IN
            /\ cache = [k \in {WatchedKey} |-> obj]
            /\ observed = <<Event("add", obj)>>
    /\ populated = TRUE
    /\ listRemaining = 0
    /\ informerPc = "running"
    /\ pending = observed
    /\ sending = <<>>
    /\ delivered = <<>>
    /\ hasConsumer = FALSE
    /\ stop = "open"
    /\ runPc = "done"
    /\ cacheSynced = "closed"
    /\ closeCount = 1
    /\ result = NoCall
    /\ ctorPc = "returned"
    /\ waiters = IdleWaiters
    /\ stopFiredUnsynced = FALSE
    /\ filterResult = NoFilterCall(ConfigMap(osmNamespace, osmConfigMapName, EmptyData))

GetConfigFromAnyStore == GetConfig(BOOLEAN)

DecodeNext == GetConfigFromAnyStore

DecodeSpec == DecodeInit /\ [][DecodeNext]_vars


(***************************************************************************)
(* The life of the client from the last statements of NewConfigurator:     *)
(* the constructor starts run and returns, goroutines wait on cacheSynced, *)
(* the informer lists, stop may fire.  Goroutines that can run do run.     *)
(***************************************************************************)
LiveInit ==
    /\ cache = [k \in {} |-> NilItem]
    /\ populated = FALSE
    /\ listRemaining = 0
    /\ informerPc = "created"
    /\ observed = <<>>
    /\ pending = <<>>
    /\ sending = <<>>
    /\ delivered = <<>>
    /\ hasConsumer \in BOOLEAN
    /\ stop = "open"
    /\ runPc = "notstarted"
    /\ cacheSynced = "open"
    /\ closeCount = 0
    /\ result = NoCall
    /\ ctorPc = "go"
    /\ waiters = IdleWaiters
    /\ stopFiredUnsynced = FALSE
    /\ filterResult = NoFilterCall(ConfigMap(osmNamespace, osmConfigMapName, EmptyData))

\* go client.run(stop)
NewConfiguratorGo ==
    /\ ctorPc = "go"
    /\ runPc' = "start"
    /\ ctorPc' = "return"
    /\ UNCHANGED <<cache, populated, listRemaining, informerPc, observed, pending,
                   sending, delivered, hasConsumer, stop, cacheSynced, closeCount,
                   result, waiters, stopFiredUnsynced, filterResult>>

\* variant: run is called, not started with go, so the constructor goes on
\* when run has returned
NewConfiguratorReturnAfterRun ==
    /\ ctorPc = "return"
    /\ runPc \in {"done", "failed"}
    /\ ctorPc' = "returned"
    /\ UNCHANGED <<cache, populated, listRemaining, informerPc, observed, pending,
                   sending, delivered, hasConsumer, stop, runPc, cacheSynced,
                   closeCount, result, waiters, stopFiredUnsynced, filterResult>>

\* return &client
NewConfiguratorReturn ==
    /\ ctorPc = "return"
    /\ ctorPc' = "returned"
    /\ UNCHANGED <<cache, populated, listRemaining, informerPc, observed, pending,
                   sending, delivered, hasConsumer, stop, runPc, cacheSynced,
                   closeCount, result, waiters, stopFiredUnsynced, filterResult>>

\* a goroutine that holds the client starts to receive from cacheSynced
WaiterStart(i) ==
    /\ ctorPc = "returned"
    /\ waiters[i] = "idle"
    /\ waiters' = [waiters EXCEPT ![i] = "waiting"]
    /\ UNCHANGED <<cache, populated, listRemaining, informerPc, observed, pending,
                   sending, delivered, hasConsumer, stop, runPc, cacheSynced,
                   closeCount, result, ctorPc, stopFiredUnsynced, filterResult>>

\* the receive on the closed channel returns
WaiterRelease(i) ==
    /\ waiters[i] = "waiting"
    /\ cacheSynced = "closed"
    /\ waiters' = [waiters EXCEPT ![i] = "released"]
    /\ UNCHANGED <<cache, populated, listRemaining, informerPc, observed, pending,
                   sending, delivered, hasConsumer, stop, runPc, cacheSynced,
                   closeCount, result, ctorPc, stopFiredUnsynced, filterResult>>

WaitersStart == \E i \in 1..MaxWaiters : WaiterStart(i)

WaitersRelease == \E i \in 1..MaxWaiters : WaiterRelease(i)

\* the listed objects differ in namespace and name only
InformerApplyListedEmpty == InformerApplyListedOf({EmptyData})

\* cache.WaitForCacheSync polls until it returns
RunWait == RunWaitSynced \/ RunWaitStopped

LiveNext ==
    \/ NewConfiguratorGo
    \/ NewConfiguratorReturn
    \/ RunStart
    \/ RunWaitSynced
    \/ RunWaitStopped
    \/ RunClose
    \/ InformerList
    \/ InformerApplyListedEmpty
    \/ InformerStop
    \/ CloseStop
    \/ HandleEvent
    \/ Receive
    \/ WaitersStart
    \/ WaitersRelease

LiveFairness ==
    /\ WF_vars(NewConfiguratorGo)
    /\ WF_vars(NewConfiguratorReturn)
    /\ WF_vars(RunStart)
    /\ WF_vars(RunWait)
    /\ WF_vars(RunClose)
    /\ \A i \in 1..MaxWaiters : WF_vars(WaiterRelease(i))

LiveSpec == LiveInit /\ [][LiveNext]_vars /\ LiveFairness

(***************************************************************************)
(* shouldObserve as a function of the object it is given.                  *)
(***************************************************************************)
FilterInit ==
    /\ cache = [k \in {} |-> NilItem]
    /\ populated = TRUE
    /\ listRemaining = 0
    /\ informerPc = "running"
    /\ observed = <<>>
    /\ pending = <<>>
    /\ sending = <<>>
    /\ delivered = <<>>
    /\ hasConsumer = FALSE
    /\ stop = "open"
    /\ runPc = "done"
    /\ cacheSynced = "closed"
    /\ closeCount = 1
    /\ result = NoCall
    /\ ctorPc = "returned"
    /\ waiters = IdleWaiters
    /\ stopFiredUnsynced = FALSE
    /\ \E obj \in FilterObjects : filterResult = NoFilterCall(obj)

\* a handler calls shouldObserve(obj)
ApplyFilter ==
    /\ ~filterResult.called
    /\ filterResult' = [called |-> TRUE, obj |-> filterResult.obj] @@
                       shouldObserveCall(filterResult.obj)
    /\ UNCHANGED <<cache, populated, listRemaining, informerPc, observed, pending,
                   sending, delivered, hasConsumer, stop, runPc, cacheSynced,
                   closeCount, result, ctorPc, waiters, stopFiredUnsynced>>

FilterNext == ApplyFilter

FilterSpec == FilterInit /\ [][FilterNext]_vars

(***************************************************************************)
(* Properties.                                                             *)
(***************************************************************************)
InWatchedNamespace(e) == e.Namespace = osmNamespace

Records == [ConfigVersion : 0..MaxVersion, PermissiveTrafficPolicyMode : BOOLEAN]

\* the records getConfigMap can return on a store
PossibleConfigs(store) ==
    {getConfigMap(store, FALSE, last).conf : last \in LastVisited(store)}

\* C1: cacheSynced is closed at most once, and once closed it stays closed.
C1_ClosedAtMostOnce ==
    /\ closeCount <= 1
    /\ [][/\ closeCount' <= 1
          /\ (cacheSynced = "closed" => cacheSynced' = "closed")]_vars

\* the signal is closed, exactly once, in an execution where stop has fired
C1_Witness == cacheSynced = "closed" /\ closeCount = 1 /\ stop = "closed"

\* C2: whatever GetByKey answers (found, not found, error) and whatever the
\* payload holds, getConfigMap returns a non-nil osmConfig and does not panic.
C2_AlwaysReturnsRecord ==
    result.called =>
        /\ ~result.panicked
        /\ ~result.isNil
        /\ result.conf \in osmConfig

\* a call whose lookup reported an error, with the object in the store
C2_Witness ==
    /\ result.called /\ result.lookupErr /\ result.held = 1
    /\ ~result.panicked /\ ~result.isNil

\* C3: with no object at the watched key, or one whose Data has no entries,
\* getConfigMap returns the zero-valued record.
C3_AbsentOrEmptyGivesZero ==
    (result.called /\ result.held \in {-1, 0}) => result.conf = ZeroConfig

\* a call made while the store held the watched object with empty Data
C3_Witness == result.called /\ result.held = 0 /\ result.conf = ZeroConfig

\* C4: when decoding reports an error, getConfigMap returns the zero-valued
\* record and does not panic.
C4_DecodeErrorGivesZero ==
    (result.called /\ result.decodeErr) =>
        (result.conf = ZeroConfig /\ ~result.panicked)

\* C5: a sole payload entry that is the valid encoding of a record decodes to
\* that record; a field left out of the payload comes back as its default.
C5_RoundTrip ==
    (/\ result.called
     /\ ~result.lookupErr
     /\ result.held = 1
     /\ DOMAIN cache[WatchedKey].Data = {"osm.yaml"}) =>
        LET text == cache[WatchedKey].Data["osm.yaml"] IN
        \A r \in Records :
            /\ text = Marshal(r) => (result.conf = r /\ ~result.decodeErr)
            /\ text = <<Marshal(r)[1]>> =>
                 result.conf = [r EXCEPT !.PermissiveTrafficPolicyMode = FALSE]
            /\ text = <<Marshal(r)[2]>> =>
                 result.conf = [r EXCEPT !.ConfigVersion = 0]

\* the payload of the spec's example decoded to {2, true}
C5_Witness ==
    /\ result.called /\ ~result.lookupErr /\ result.held = 1
    /\ cache[WatchedKey].Data =
         [n \in {"osm.yaml"} |->
            Marshal([ConfigVersion |-> 2, PermissiveTrafficPolicyMode |-> TRUE])]
    /\ result.conf = [ConfigVersion |-> 2, PermissiveTrafficPolicyMode |-> TRUE]

\* C6: a getConfigMap call made before the initial sync has completed (the
\* store not synced, cacheSynced open) returns the zero-valued record.
C6_BeforeSyncGivesZero ==
    (result.called /\ result.beforeSync) => result.conf = ZeroConfig

\* C7: the records getConfigMap can return depend only on the store's entry
\* at the watched key: a step that leaves that entry alone leaves them alone,
\* and with no object at the watched key only the zero record is returned.
C7_OnlyWatchedKeyMatters ==
    [][/\ (Held(cache') = Held(cache) /\
           (WatchedKey \in DOMAIN cache => cache'[WatchedKey] = cache[WatchedKey]))
            => PossibleConfigs(cache') = PossibleConfigs(cache)
       /\ WatchedKey \notin DOMAIN cache' => PossibleConfigs(cache') = {ZeroConfig}]_vars

\* the same name in namespace "default" holds a valid payload, nothing is at
\* the watched key, and a call returned the zero record
C7_Witness ==
    /\ <<"default", osmConfigMapName>> \in DOMAIN cache
    /\ cache[<<"default", osmConfigMapName>>].Data = [n \in {"osm.yaml"} |-> ValidText]
    /\ WatchedKey \notin DOMAIN cache
    /\ result.called /\ result.held = -1 /\ result.conf = ZeroConfig

\* C8: every notification pushed on the announcements channel refers to an
\* object of the watched namespace.
C8_OnlyWatchedNamespaceAnnounced ==
    /\ \A i \in 1..Len(sending) : sending[i].Namespace = osmNamespace
    /\ \A i \in 1..Len(delivered) : delivered[i].Namespace = osmNamespace

\* a change in another namespace was observed and handled, a consumer is
\* receiving, and nothing was pushed
C8_Witness ==
    /\ hasConsumer
    /\ \E i \in 1..Len(observed) : observed[i].Namespace # osmNamespace
    /\ pending = <<>> /\ sending = <<>> /\ delivered = <<>>

C10_ProducerNeverBlocked ==
    (~hasConsumer /\ pending # <<>>) => ENABLED HandleEvent


\* C11 (as claimed): once stop has fired while the store was not synced,
\* cacheSynced is never closed.
C11_StopWhileUnsyncedStaysOpen ==
    stopFiredUnsynced => cacheSynced = "open"

\* C11 (amended): while stop has fired and the store has not synced run does
\* not reach the close, and once run has returned from the failed wait
\* cacheSynced is open, in every later state.
C11_FailedWaitStaysOpen ==
    /\ (stop = "closed" /\ ~HasSynced) => (cacheSynced = "open" /\ runPc # "close")
    /\ runPc = "failed" => (cacheSynced = "open" /\ closeCount = 0)

\* stop fired while the store was unsynced, the store never synced, run has
\* returned and the signal is open
C11_Witness ==
    /\ stopFiredUnsynced /\ ~HasSynced
    /\ runPc = "failed" /\ cacheSynced = "open"

\* C13: two getConfigMap calls on the same store (the lookup finding the
\* object both times) return the same record.
C13_SameStoreSameRecord ==
    [][(/\ result.called /\ result'.called
        /\ ~result.lookupErr /\ ~result'.lookupErr
        /\ cache' = cache) => result'.conf = result.conf]_vars

\* C14: shouldObserve is true exactly for an object whose namespace is the
\* watched one, and false, without a panic, for an object with no namespace
\* field.
C14_FilterNeverPanics ==
    filterResult.called =>
        /\ ~filterResult.panicked
        /\ filterResult.value <=>
             (/\ Shape(filterResult.obj.type).pointer
              /\ Shape(filterResult.obj.type).hasObjectMeta
              /\ Shape(filterResult.obj.type).hasNamespace
              /\ filterResult.obj.Namespace = osmNamespace)

\* C16: a getConfigMap call changes nothing but its own result: the store,
\* the readiness signal and the announcements are as before.
C16_GetConfigIsPureRead ==
    [][result' # result =>
         UNCHANGED <<cache, cacheSynced, closeCount, observed, pending, sending,
                     delivered, populated, listRemaining>>]_vars

\* a call whose decoding failed, with the object still in the store and the
\* signal and the queue as they were
C16_Witness ==
    /\ result.called /\ result.decodeErr
    /\ WatchedKey \in DOMAIN cache
    /\ cacheSynced = "closed" /\ closeCount = 1
    /\ pending = observed /\ sending = <<>> /\ delivered = <<>>

\* C17: cacheSynced is closed only when the store has reported that the
\* initial listing is applied.
C17_ClosedImpliesSynced ==
    cacheSynced = "closed" => HasSynced

\* stop fired during the wait, before the store synced, and the signal was
\* closed after the store synced
C17_Witness ==
    cacheSynced = "closed" /\ stopFiredUnsynced /\ HasSynced

\* C18: getConfigMap returns the decoding of an entry of the object the
\* store holds when it is called, and the zero record when it holds none.
C18_ReturnsCurrentVersion ==
    result.called => result.conf \in result.expect

\* the watched object was added, then deleted, and a later call returned the
\* zero record
C18_Witness ==
    /\ Len(observed) = 2
    /\ observed[1] = [kind |-> "add", Namespace |-> osmNamespace, Name |-> osmConfigMapName]
    /\ observed[2] = [kind |-> "delete", Namespace |-> osmNamespace, Name |-> osmConfigMapName]
    /\ result.called /\ result.held = -1 /\ result.conf = ZeroConfig


\* C12: when the store has reported the synced state and stop does not fire,
\* cacheSynced is eventually closed and every goroutine waiting on it is
\* eventually released.
C12_SyncedLeadsToReady ==
    /\ HasSynced ~> (cacheSynced = "closed" \/ stop = "closed")
    /\ \A i \in 1..MaxWaiters :
         (waiters[i] = "waiting" /\ HasSynced) ~>
             (waiters[i] = "released" \/ stop = "closed")

\* every waiter was released and stop never fired
C12_Witness ==
    /\ stop = "open"
    /\ \A i \in 1..MaxWaiters : waiters[i] = "released"

\* C15: NewConfigurator returns, whatever the store and stop do: also when
\* the store never syncs and stop never fires.
C15_ConstructorReturns == <>(ctorPc = "returned")

\* the constructor has returned while run is in the readiness wait, the
\* store unsynced and stop open
C15_Witness ==
    /\ ctorPc = "returned" /\ runPc = "wait"
    /\ ~HasSynced /\ stop = "open" /\ cacheSynced = "open"

\* C19: once stop has fired run terminates.
C19_StopLeadsToRunReturn ==
    (stop = "closed") ~> (runPc \in {"done", "failed"})

\* run has returned after stop although the store never synced and the
\* handler is stuck in a send nobody receives
C19_Witness ==
    /\ stop = "closed" /\ runPc = "failed" /\ ~HasSynced
    /\ ~hasConsumer /\ sending # <<>>

====
